---- MODULE Spec2Model ----
(***************************************************************************)
(* Model of scripts/update_data.py: the text normalizer, the content       *)
(* filter, the canonical item builder, the bulletin segmentation engine,   *)
(* the source adapters and the aggregator (main).                          *)
(*                                                                         *)
(* Text is a sequence of one-character strings.  The module's strings are  *)
(* ASCII, so a CJK character is written as one token, its pinyin (with a   *)
(* suffix where two characters share a reading):                           *)
(*   tan 探  dian_shop 店  wang 网  hong 红  chu 出  pian 片  yue 约       *)
(*   pai 拍  zhao 照  da 打  ka_card 卡  di 地  dian_point 点  tuan 团     *)
(*   gou 购  shuang 双  ren 人  te 特  hui_benefit 惠  bi 必  zhong 种     *)
(*   cao 草  ka_coffee 咖  fei 啡  hui_meet 会  qing 情  lv 侣             *)
(*   tuo 脱  kou 口  xiu 秀  zhi 之  ye 夜  zhuan 专  chang 场  guan 馆    *)
(*   zhi_addr 址  wen 文  hua 化  gong 宫  nian 年  yue_month 月  ri 日    *)
(*   chun 春  ji 季  shou 手  gong_work 工  fang 坊  ju 剧  yuan 院        *)
(*   jiao 交  xiang 响  yin 音  yue_music 乐  huo 活  dong 动  zhan 展     *)
(*   lan 览  pai_row 排  qi 期  jing 精  xuan 选  ying 迎  xin 新          *)
(*   shou_first 首  ye_page 页  gai 概  kuang 况                           *)
(*   tai 态  yan 演  chang_sing 唱  xi 戏  hua_talk 话  wu 舞             *)
(*   tai_stage 台  qin 亲  zi 子  er 儿  tong 童  hua_flower 花  shang 赏  *)
(*   mei 梅  he_lotus 荷  ying_cherry 樱  guang 广  zhou 州  da_big 大     *)
(*   fu 附  jian 件  xia 下  zai 载  guan_about 关  yu_about 于  wo 我     *)
(*   men 们  jie 介  shao 绍  yue_guangdong 粤  bo 博  wu_thing 物  ti 题  *)
(*   hui_back 回  gu 顾  yu_pre 预  gao 告                                 *)
(*   colon_fw ：  semi_fw ；  stop_fw 。  dash_em —  dash_en –             *)
(* A fixed phrase the code only passes along is one token ("area:...",     *)
(* "notes:...", "hours:...").                                              *)
(* A URL is a sequence of tokens cut where the code's prefix and substring *)
(* tests cut it ("http", "s", "://", "www.", "gdmuseum.com", "/", ...).    *)
(***************************************************************************)
EXTENDS Integers, Sequences, FiniteSets, TLC

VARIABLES
    title, verdict,                      \* content filter: input, result
    kw, built,                           \* item builder: keyword arguments, result
    pdf_text, lines, cursor, buf, events, blocks, ppc,   \* segmentation engine
    web, items, filtered, deduped, final, out, ci, pc    \* main and its adapters

filterVars == <<title, verdict>>
itemVars == <<kw, built>>
pdfVars == <<pdf_text, lines, cursor, buf, events, blocks, ppc>>
mainVars == <<web, items, filtered, deduped, final, out, ci, pc>>
vars == <<filterVars, itemVars, pdfVars, mainVars>>

-----------------------------------------------------------------------------
(* Sequences as Python strings and lists *)

Min(a, b) == IF a < b THEN a ELSE b

\* s[:n]
Take(s, n) == SubSeq(s, 1, Min(n, Len(s)))

\* s[n:]  (n characters dropped)
Drop(s, n) == SubSeq(s, Min(n, Len(s)) + 1, Len(s))

\* s.startswith(p)
StartsWith(s, p) == Len(p) <= Len(s) /\ SubSeq(s, 1, Len(p)) = p

\* p occurs in s at index i
OccursAt(s, p, i) == i >= 1 /\ i + Len(p) - 1 <= Len(s) /\ SubSeq(s, i, i + Len(p) - 1) = p

\* p in s
Contains(s, p) == \E i \in 1..(Len(s) - Len(p) + 1) : OccursAt(s, p, i)

\* x in s, for a list s
Member(s, x) == \E i \in 1..Len(s) : s[i] = x

\* the characters \s matches
WS == {" ", "\t", "\n"}

Digit == {"0", "1", "2", "3", "4", "5", "6", "7", "8", "9"}

RECURSIVE Flatten(_, _)
\* sep.join(ss)
Flatten(ss, sep) ==
    IF ss = <<>> THEN <<>>
    ELSE IF Len(ss) = 1 THEN ss[1]
    ELSE ss[1] \o sep \o Flatten(Tail(ss), sep)

\* the indices of s, in order
Indices(s) == [i \in 1..Len(s) |-> i]

\* s.lstrip()
LStrip(s) ==
    LET inked == {i \in 1..Len(s) : s[i] \notin WS}
    IN  IF inked = {} THEN <<>>
        ELSE SubSeq(s, CHOOSE i \in inked : \A j \in inked : i <= j, Len(s))

\* s.rstrip()
RStrip(s) ==
    LET inked == {i \in 1..Len(s) : s[i] \notin WS}
    IN  IF inked = {} THEN <<>>
        ELSE SubSeq(s, 1, CHOOSE i \in inked : \A j \in inked : i >= j)

\* re.sub(r"\s+", " ", s): each run of whitespace becomes one space
Collapse(s) ==
    LET RunStart(i) == s[i] \notin WS \/ i = 1 \/ s[i - 1] \notin WS
        kept == SelectSeq(Indices(s), RunStart)
    IN  [k \in 1..Len(kept) |-> IF s[kept[k]] \in WS THEN " " ELSE s[kept[k]]]

norm(s) == Collapse(RStrip(LStrip(s)))

-----------------------------------------------------------------------------
(* Content filter *)

BAD_KEYWORDS == <<
    <<"tan", "dian_shop">>, <<"wang", "hong">>, <<"chu", "pian">>, <<"yue", "pai">>,
    <<"pai", "zhao", "da", "ka_card">>, <<"da", "ka_card", "di">>,
    <<"da", "ka_card", "dian_point">>, <<"tuan", "gou">>,
    <<"shuang", "ren", "te", "hui_benefit">>, <<"bi", "da", "ka_card">>,
    <<"zhong", "cao">>, <<"ka_coffee", "fei", "tan", "dian_shop">> >>

SOFT_BAD_KEYWORDS == << <<"yue", "hui_meet">>, <<"qing", "lv">> >>

\* any(k in t for k in ks)
AnyIn(ks, t) == \E i \in 1..Len(ks) : Contains(t, ks[i])

\* line 213 with its second test dropped: a soft keyword overrides a hard one
looks_bad_soft_wins(t0) ==
    LET t == norm(t0)
    IN  IF AnyIn(BAD_KEYWORDS, t)
        THEN IF AnyIn(SOFT_BAD_KEYWORDS, t) THEN FALSE ELSE TRUE
        ELSE FALSE

looks_bad(t0) ==
    LET t == norm(t0)
    IN  IF AnyIn(BAD_KEYWORDS, t)
        THEN IF AnyIn(SOFT_BAD_KEYWORDS, t) /\ ~AnyIn(BAD_KEYWORDS, t)
             THEN FALSE
             ELSE TRUE
        ELSE FALSE

-----------------------------------------------------------------------------
(* Canonical item builder.  Free text is a sequence of characters; a value  *)
(* the code only passes along (an enum label, a tag, a source name) is one  *)
(* string; a fixed phrase the code never inspects is a one-token text.      *)

SchemaKeys == {
    "type", "name", "area", "date", "timeHint", "cost", "reservation", "tags",
    "transitEase", "transferComplexity", "timeMin", "intensity", "crowdRisk",
    "checkin", "weatherFit", "seasonFit", "mosquito", "toiletSupply", "lighting",
    "openHoursHint", "notes", "link", "source" }

\* kw.get(k, d)
Get(m, k, d) == IF k \in DOMAIN m THEN m[k] ELSE d

AllWeather == [rain |-> TRUE, sun |-> TRUE, cold |-> TRUE]

AllSeasons == [spring |-> TRUE, summer |-> TRUE, autumn |-> TRUE, winter |-> TRUE]

make_item_base(m) == [
    type |-> Get(m, "type", "event"),
    name |-> Get(m, "name", <<>>),
    area |-> Get(m, "area", <<"guang", "zhou">>),
    date |-> Get(m, "date", <<>>),
    timeHint |-> Get(m, "timeHint", <<>>),
    cost |-> Get(m, "cost", "mid"),
    reservation |-> Get(m, "reservation", "maybe"),
    tags |-> Get(m, "tags", <<>>),
    transitEase |-> Get(m, "transitEase", 3),
    transferComplexity |-> Get(m, "transferComplexity", 3),
    timeMin |-> Get(m, "timeMin", 80),
    intensity |-> Get(m, "intensity", "low"),
    crowdRisk |-> Get(m, "crowdRisk", 3),
    checkin |-> Get(m, "checkin", 2),
    weatherFit |-> Get(m, "weatherFit", AllWeather),
    seasonFit |-> Get(m, "seasonFit", AllSeasons),
    mosquito |-> Get(m, "mosquito", 1),
    toiletSupply |-> Get(m, "toiletSupply", 3),
    lighting |-> Get(m, "lighting", 4),
    openHoursHint |-> Get(m, "openHoursHint", <<"hours:official-notice">>),
    notes |-> Get(m, "notes", <<>>),
    link |-> Get(m, "link", <<>>),
    source |-> Get(m, "source", "unknown") ]

\* the defaults updated with every keyword argument: base.update(kw)
make_item_update(m) ==
    [k \in SchemaKeys \cup DOMAIN m |-> IF k \in DOMAIN m THEN m[k] ELSE make_item_base(m)[k]]

make_item(m) == make_item_base(m)

-----------------------------------------------------------------------------
(* Bulletin segmentation engine: the patterns *)

\* s[i], or "" past either end
CharAt(s, i) == IF i >= 1 /\ i <= Len(s) THEN s[i] ELSE ""

RECURSIVE SkipWS(_, _)
\* where \s* started at i ends, taking all it can
SkipWS(s, i) == IF CharAt(s, i) \in WS THEN SkipWS(s, i + 1) ELSE i

\* how many of the first n characters from i are digits (a run)
DigitsAt(s, i, n) ==
    IF n >= 1 /\ CharAt(s, i) \in Digit
    THEN IF n >= 2 /\ CharAt(s, i + 1) \in Digit
         THEN IF n >= 3 /\ CharAt(s, i + 2) \in Digit
              THEN IF n >= 4 /\ CharAt(s, i + 3) \in Digit THEN 4 ELSE 3
              ELSE 2
         ELSE 1
    ELSE 0

DateSep == {"yue_month", "/", ".", "-"}

\* \s*\d{1,2}\s*(ri)?  from i, greedy: the index after the match, 0 if none
DateDayEnd(s, i) ==
    LET e == SkipWS(s, i)
        d == DigitsAt(s, e, 2)
        g == SkipWS(s, e + d)
    IN  IF d = 0 THEN 0
        ELSE IF CharAt(s, g) = "ri" THEN g + 1 ELSE g

\* \s*[sep]<day part>  from b, where the month's digits ended
DateAfterMonth(s, b) ==
    LET c == SkipWS(s, b)
    IN  IF CharAt(s, c) \in DateSep THEN DateDayEnd(s, c + 1) ELSE 0

\* \s*\d{1,2}<rest>  from j: two digits tried before one
DateFromMonth(s, j) ==
    LET a == SkipWS(s, j)
        d == DigitsAt(s, a, 2)
    IN  IF d = 0 THEN 0
        ELSE IF DateAfterMonth(s, a + d) # 0 THEN DateAfterMonth(s, a + d)
        ELSE IF d = 2 THEN DateAfterMonth(s, a + 1)
        ELSE 0

\* date_pat matched at i: the year group tried before its absence
DateEndAt(s, i) ==
    IF DigitsAt(s, i, 4) = 4 /\ CharAt(s, i + 4) = "nian" /\ DateFromMonth(s, i + 5) # 0
    THEN DateFromMonth(s, i + 5)
    ELSE DateFromMonth(s, i)

Dash == {"-", "~", "dash_em", "dash_en"}

\* \d{1,2}:\d{2}  from i with d leading digits: the index after it, 0 if none
ClockEndWith(s, i, d) ==
    IF /\ d >= 1
       /\ DigitsAt(s, i, d) = d
       /\ CharAt(s, i + d) = ":"
       /\ DigitsAt(s, i + d + 1, 2) = 2
    THEN i + d + 3
    ELSE 0

ClockEnd(s, i) ==
    IF ClockEndWith(s, i, 2) # 0 THEN ClockEndWith(s, i, 2) ELSE ClockEndWith(s, i, 1)

\* time_pat matched at i
TimeEndAt(s, i) ==
    LET b == ClockEnd(s, i)
        c == SkipWS(s, b)
    IN  IF b = 0 THEN 0
        ELSE IF CharAt(s, c) \in Dash THEN ClockEnd(s, SkipWS(s, c + 1)) ELSE 0

RECURSIVE DateFrom(_, _)
\* the leftmost i >= i0 where date_pat matches, 0 if none
DateFrom(s, i0) ==
    IF i0 > Len(s) THEN 0
    ELSE IF DateEndAt(s, i0) # 0 THEN i0
    ELSE DateFrom(s, i0 + 1)

RECURSIVE TimeFrom(_, _)
TimeFrom(s, i0) ==
    IF i0 > Len(s) THEN 0
    ELSE IF TimeEndAt(s, i0) # 0 THEN i0
    ELSE TimeFrom(s, i0 + 1)

\* pattern.search(s): <<start, end>> of the leftmost match, <<0, 0>> if none
FirstDate(s) ==
    LET i == DateFrom(s, 1)
    IN  IF i = 0 THEN <<0, 0>> ELSE <<i, DateEndAt(s, i)>>

FirstTime(s) ==
    LET i == TimeFrom(s, 1)
    IN  IF i = 0 THEN <<0, 0>> ELSE <<i, TimeEndAt(s, i)>>

\* m.group(0) if m else ""
Group0(s, m) == IF m[1] = 0 THEN <<>> ELSE SubSeq(s, m[1], m[2] - 1)

LocLabels == { <<"di", "dian_point">>, <<"di", "zhi_addr">>, <<"chang", "guan">> }

LocStop == {"stop_fw", "semi_fw", ";"}

RECURSIVE RunNotStop(_, _)
\* length of the run from i of characters [^stop]
RunNotStop(s, i) ==
    IF i <= Len(s) /\ s[i] \notin LocStop THEN 1 + RunNotStop(s, i + 1) ELSE 0

\* the location pattern matched at i: <<start, end>> of group 2, <<0, 0>> if none.
\* \s* gives back whitespace when the capture would otherwise be under 4 long.
LocGroupAt(s, i) ==
    LET p0 == i + 3
        w0 == SkipWS(s, p0) - p0
        r == RunNotStop(s, p0)
        w == Min(w0, r - 4)
    IN  IF /\ i + 2 <= Len(s)
           /\ s[i + 2] \in {":", "colon_fw"}
           /\ SubSeq(s, i, i + 1) \in LocLabels
           /\ r >= 4
        THEN <<p0 + w, p0 + w + Min(40, r - w)>>
        ELSE <<0, 0>>

RECURSIVE LocFrom(_, _)
LocFrom(s, i0) ==
    IF i0 > Len(s) THEN 0
    ELSE IF LocGroupAt(s, i0)[1] # 0 THEN i0
    ELSE LocFrom(s, i0 + 1)

FirstLoc(s) ==
    LET i == LocFrom(s, 1)
    IN  IF i = 0 THEN <<0, 0>> ELSE LocGroupAt(s, i)

RECURSIVE IndexOf(_, _)
\* s.find(c), 1-based; Len(s) + 1 if absent
IndexOf(s, c) == IF s = <<>> \/ s[1] = c THEN 1 ELSE 1 + IndexOf(Tail(s), c)

-----------------------------------------------------------------------------
(* Bulletin segmentation engine: split_events_from_pdf_text *)

RECURSIVE SplitLines(_)
\* text.splitlines()
SplitLines(text) ==
    LET n == IndexOf(text, "\n")
    IN  IF text = <<>> THEN <<>>
        ELSE IF n > Len(text) THEN <<text>>
        ELSE <<SubSeq(text, 1, n - 1)>> \o SplitLines(Drop(text, n))

RECURSIVE KeepLong(_)
\* [x for x in lines if x and len(x) >= 4]
KeepLong(ls) ==
    IF ls = <<>> THEN <<>>
    ELSE IF ls[1] # <<>> /\ Len(ls[1]) >= 4
         THEN <<ls[1]>> \o KeepLong(Tail(ls))
         ELSE KeepLong(Tail(ls))

\* lines 114-115
CleanLines(text) ==
    LET raw == SplitLines(text)
    IN  KeepLong([i \in 1..Len(raw) |-> norm(raw[i])])

\* [x] if c else []
SeqIf(c, x) == IF c THEN <<x>> ELSE <<>>

\* lines 156-161
BlockTags(block) ==
    <<"official-list", "pdf-parse">>
    \o SeqIf(Contains(block, <<"zhan">>) \/ Contains(block, <<"zhan", "lan">>), "exhibition")
    \o SeqIf(\/ Contains(block, <<"yin", "yue_music">>)
             \/ Contains(block, <<"yan", "chang_sing">>)
             \/ Contains(block, <<"yin", "yue_music", "hui_meet">>), "music")
    \o SeqIf(\/ Contains(block, <<"xi", "ju">>)
             \/ Contains(block, <<"hua_talk", "ju">>)
             \/ Contains(block, <<"wu", "tai_stage">>), "drama")
    \o SeqIf(Contains(block, <<"qin", "zi">>) \/ Contains(block, <<"er", "tong">>), "family")
    \o SeqIf(\E k \in { <<"hua_flower">>, <<"hua_flower", "qi">>, <<"shang", "hua_flower">>,
                        <<"mei">>, <<"he_lotus">>, <<"ying_cherry">> } : Contains(block, k),
             "flowers")

\* lines 141-144
BlockArea(block) ==
    LET m_loc == FirstLoc(block)
    IN  IF m_loc[1] # 0
        THEN norm(SubSeq(block, m_loc[1], m_loc[2] - 1))
        ELSE <<"guang", "zhou", "(", "see-pdf", ")">>

\* lines 147-151
BlockName(block) ==
    IF Member(Take(block, 30), "colon_fw")
    THEN norm(Take(Drop(block, IndexOf(block, "colon_fw")), 40))
    ELSE norm(Take(block, 40))

\* flush_buf(buf_lines): events after the call
flush_buf(evs, buf_lines, source_pdf) ==
    LET block == Flatten(buf_lines, <<" ">>)
        name == BlockName(block)
    IN  IF buf_lines = <<>> THEN evs
        ELSE IF Len(block) < 12 THEN evs
        ELSE IF looks_bad(name) THEN evs
        ELSE Append(evs, make_item([
                type |-> "event",
                name |-> name,
                area |-> BlockArea(block),
                date |-> norm(Group0(block, FirstDate(block))),
                timeHint |-> norm(Group0(block, FirstTime(block))),
                cost |-> "low",
                reservation |-> "maybe",
                tags |-> BlockTags(block),
                transitEase |-> 3, transferComplexity |-> 3, timeMin |-> 80,
                intensity |-> "low",
                crowdRisk |-> 3, checkin |-> 1,
                openHoursHint |-> <<"hours:see-pdf">>,
                notes |-> Take(block, 220),
                link |-> source_pdf,
                source |-> "wglj.gz.gov.cn/pdf" ]))

\* a call of flush_buf, with the block it was handed noted in st.blocks
Flushed(st, source_pdf) ==
    [ buf |-> st.buf,
      events |-> flush_buf(st.events, st.buf, source_pdf),
      blocks |-> IF st.buf = <<>> THEN st.blocks ELSE Append(st.blocks, st.buf) ]

\* the placement with the open-buffer test ahead of the date test
Placed_date_joins(st, ln, source_pdf) ==
    IF st.buf # <<>> THEN [st EXCEPT !.buf = Append(st.buf, ln)]
    ELSE IF FirstDate(ln)[1] # 0 \/ Len(ln) > 10 THEN [st EXCEPT !.buf = <<ln>>]
    ELSE st

\* lines 183-193: the line is placed
Placed(st, ln, source_pdf) ==
    IF FirstDate(ln)[1] # 0
    THEN [Flushed(st, source_pdf) EXCEPT !.buf = <<ln>>]
    ELSE IF st.buf # <<>> THEN [st EXCEPT !.buf = Append(st.buf, ln)]
    ELSE IF Len(ln) > 10 THEN [st EXCEPT !.buf = <<ln>>]
    ELSE st

\* lines 182-198: one iteration of the loop
LoopStep(st, ln, source_pdf) ==
    LET p == Placed(st, ln, source_pdf)
    IN  IF Len(p.buf) >= 6
        THEN [Flushed(p, source_pdf) EXCEPT !.buf = <<>>]
        ELSE p

RECURSIVE LoopFrom(_, _, _)
LoopFrom(st, ls, source_pdf) ==
    IF ls = <<>> THEN st
    ELSE LoopFrom(LoopStep(st, ls[1], source_pdf), Tail(ls), source_pdf)

split_events_from_pdf_text(text, source_pdf) ==
    LET st0 == [buf |-> <<>>, events |-> <<>>, blocks |-> <<>>]
        st1 == LoopFrom(st0, CleanLines(text), source_pdf)
    IN  Flushed(st1, source_pdf).events

-----------------------------------------------------------------------------
(* The content filter applied to one title *)

\* Longest title enumerated over FilterAlphabet
MaxTitleLen == 4

FilterAlphabet == {"wang", "hong", "yue", "hui_meet", "tan", "dian_shop", " ", "zhan"}

\* "网红打卡约会专场" and "脱口秀约会之夜"
ExampleTitles == {
    <<"wang", "hong", "da", "ka_card", "yue", "hui_meet", "zhuan", "chang">>,
    <<"tuo", "kou", "xiu", "yue", "hui_meet", "zhi", "ye">> }

Titles == ExampleTitles \cup UNION {[1..n -> FilterAlphabet] : n \in 0..MaxTitleLen}

\* the caller's  if looks_bad(title): continue
ApplyFilter ==
    /\ verdict = "none"
    /\ verdict' = IF looks_bad(title) THEN "reject" ELSE "accept"
    /\ UNCHANGED <<title, itemVars, pdfVars, mainVars>>

-----------------------------------------------------------------------------
(* The item builder applied to one partial field mapping *)

\* Most keyword arguments in one enumerated call
MaxKw == 2

UnknownKeys == {"price", "venue"}

\* Values a caller may supply for key k: values of the field's type
ArgValues(k) ==
    CASE k \in {"name", "area", "date", "timeHint", "openHoursHint", "notes", "link"} ->
            {<<>>, <<"zhan", "lan">>}
      [] k = "type" -> {"event"}
      [] k \in {"cost", "intensity"} -> {"low", "high"}
      [] k = "reservation" -> {"yes", "no"}
      [] k = "tags" -> {<<>>, <<"tag:a", "tag:b">>}
      [] k \in {"transitEase", "transferComplexity", "timeMin", "crowdRisk", "checkin",
                "mosquito", "toiletSupply", "lighting"} -> {1, 5}
      [] k = "weatherFit" -> {[rain |-> FALSE, sun |-> TRUE, cold |-> TRUE]}
      [] k = "seasonFit" ->
            {[spring |-> TRUE, summer |-> FALSE, autumn |-> TRUE, winter |-> FALSE]}
      [] k = "source" -> {"unknown", "douban/week-all"}
      [] k = "price" -> {0, 35}
      [] OTHER -> {"hall-a"}

\* the caller writes one more keyword argument
AddField ==
    /\ DOMAIN built = {}
    /\ Cardinality(DOMAIN kw) < MaxKw
    /\ \E k \in (SchemaKeys \cup UnknownKeys) \ DOMAIN kw :
         \E v \in ArgValues(k) : kw' = kw @@ (k :> v)
    /\ UNCHANGED <<built, filterVars, pdfVars, mainVars>>

\* make_item called with the keyword arguments kw
Build ==
    /\ DOMAIN built = {}
    /\ built' = make_item(kw)
    /\ UNCHANGED <<kw, filterVars, pdfVars, mainVars>>

-----------------------------------------------------------------------------
(* The segmentation engine run on one bulletin text, a line per step *)

\* Most lines in an enumerated bulletin
MaxLines == 3

\* "地点：文化宫 2025年3月5日 10:00-12:00 春季手工坊"
BlockA == <<"di", "dian_point", "colon_fw", "wen", "hua", "gong", " ",
            "2", "0", "2", "5", "nian", "3", "yue_month", "5", "ri", " ",
            "1", "0", ":", "0", "0", "-", "1", "2", ":", "0", "0", " ",
            "chun", "ji", "shou", "gong_work", "fang">>

\* "2025年4月1日 19:30-21:00 地点：大剧院 交响音乐会"
BlockB == <<"2", "0", "2", "5", "nian", "4", "yue_month", "1", "ri", " ",
            "1", "9", ":", "3", "0", "-", "2", "1", ":", "0", "0", " ",
            "di", "dian_point", "colon_fw", "da_big", "ju", "yuan", " ",
            "jiao", "xiang", "yin", "yue_music", "hui_meet">>

\* "2025年3月5日 活动地点："
LineColonLast == <<"2", "0", "2", "5", "nian", "3", "yue_month", "5", "ri", " ",
                   "huo", "dong", "di", "dian_point", "colon_fw">>

\* "春季手工坊活动排期精选展览": a title line with no date
LineTitle == <<"chun", "ji", "shou", "gong_work", "fang", "huo", "dong",
               "pai_row", "qi", "jing", "xuan", "zhan", "lan">>

\* "交响音乐会": a continuation line
LineShort == <<"jiao", "xiang", "yin", "yue_music", "hui_meet">>

\* "展览": under the minimum length
LineNoise == <<"zhan", "lan">>

\* "  3/5   10:00~12:00  网红打卡地展览 ": untrimmed, and a rejected title
LineBad == <<" ", " ", "3", "/", "5", " ", "\t", " ", "1", "0", ":", "0", "0", "~",
             "1", "2", ":", "0", "0", " ", " ", "wang", "hong", "da", "ka_card",
             "di", "zhan", "lan", " ">>

LinePool == {BlockA, BlockB, LineColonLast, LineTitle, LineShort, LineNoise, LineBad}

Bulletins == UNION {[1..n -> LinePool] : n \in 0..MaxLines}

SyntheticBulletin == Flatten(<<BlockA, BlockB>>, <<"\n">>)

SourcePdf == <<"http", "s", "://", "wglj.gz.gov.cn", "/", "file", "/", "a", ".pdf">>

\* lines 114-122
PdfStart ==
    /\ ppc = "start"
    /\ lines' = CleanLines(pdf_text)
    /\ cursor' = 1
    /\ buf' = <<>> /\ events' = <<>> /\ blocks' = <<>>
    /\ ppc' = "loop"
    /\ UNCHANGED <<pdf_text, filterVars, itemVars, mainVars>>

\* lines 182-198, for the line at the cursor
PdfLine ==
    /\ ppc = "loop"
    /\ cursor <= Len(lines)
    /\ LET st == LoopStep([buf |-> buf, events |-> events, blocks |-> blocks],
                          lines[cursor], SourcePdf)
       IN  buf' = st.buf /\ events' = st.events /\ blocks' = st.blocks
    /\ cursor' = cursor + 1
    /\ UNCHANGED <<pdf_text, lines, ppc, filterVars, itemVars, mainVars>>

\* lines 200-201
PdfFinish ==
    /\ ppc = "loop"
    /\ cursor > Len(lines)
    /\ LET st == Flushed([buf |-> buf, events |-> events, blocks |-> blocks], SourcePdf)
       IN  events' = st.events /\ blocks' = st.blocks
    /\ ppc' = "done"
    /\ UNCHANGED <<pdf_text, lines, cursor, buf, filterVars, itemVars, mainVars>>

-----------------------------------------------------------------------------
(* URLs and the collaborators: the HTTP client, the markup and PDF decoders *)

Dig == <<"0", "1", "2", "3", "4", "5", "6", "7", "8", "9">>

\* str(n), n < 100
NumToks(n) == IF n < 10 THEN <<Dig[n + 1]>> ELSE <<Dig[(n \div 10) + 1], Dig[(n % 10) + 1]>>

WGLJ_SCHEDULE_INDEX ==
    <<"http", "s", "://", "wglj.gz.gov.cn", "/", "ztmb", "/", "gzhyn", "/", "hdpq", "/",
      "mindex.html">>

WGLJ_ORIGIN == <<"http", "s", "://", "wglj.gz.gov.cn">>

DOUBAN_BASE == <<"http", "s", "://", "guangzhou.", "douban.com", "/", "events", "/">>

DOUBAN_PAGES == <<
    [name |-> "douban/week-all", url |-> DOUBAN_BASE \o <<"week-all">>],
    [name |-> "douban/week-music", url |-> DOUBAN_BASE \o <<"week-music">>],
    [name |-> "douban/week-drama", url |-> DOUBAN_BASE \o <<"week-drama">>],
    [name |-> "douban/week-exhibition", url |-> DOUBAN_BASE \o <<"week-exhibition">>],
    [name |-> "douban/week-course", url |-> DOUBAN_BASE \o <<"week-course">>] >>

GDMUSEUM_HOME == <<"s", "://", "www.", "gdmuseum.com", "/">>

GDMUSEUM_ACTIVITY_LIST == <<"s", "://", "www.", "gdmuseum.com", "/", "col108", "/", "list">>

GDMUSEUM_ORIGIN == <<"http", "s", "://", "www.", "gdmuseum.com">>

GZMUSEUM_EXHIBITION_LIST ==
    <<"s", "://", "www.", "guangzhoumuseum.cn", "/", "website_cn", "/", "Web", "/",
      "Exhibition", "/", "Exhibition.aspx">>

GZMUSEUM_EXHIBITION_PRE ==
    <<"s", "://", "www.", "guangzhoumuseum.cn", "/", "website_cn", "/", "Web", "/",
      "Dynamic", "/", "Exhibition.aspx">>

GZMUSEUM_ORIGIN == <<"http", "s", "://", "www.", "guangzhoumuseum.cn">>

\* the page URL of parse_douban_list's i-th page (line 362)
DoubanPageUrl(base_url, start) ==
    IF start = 0 THEN base_url ELSE base_url \o <<"?start=">> \o NumToks(start)

RECURSIVE LastIndexOf(_, _)
\* s.rfind(c), 1-based; 0 if absent
LastIndexOf(s, c) ==
    IF s = <<>> THEN 0
    ELSE IF s[Len(s)] = c THEN Len(s)
    ELSE LastIndexOf(SubSeq(s, 1, Len(s) - 1), c)

\* urljoin(base, href) for an absolute, a root-relative and a relative href
urljoin(base, href) ==
    IF StartsWith(href, <<"http">>) THEN href
    ELSE IF StartsWith(href, <<"/">>) THEN Take(base, IndexOf(base, "://") + 1) \o href
    ELSE Take(base, LastIndexOf(base, "/")) \o href

\* str.lower() of a token
LowerTok(t) == IF t = ".PDF" THEN ".pdf" ELSE t

Lower(s) == [i \in 1..Len(s) |-> LowerTok(s[i])]

An(text, href) == [text |-> text, href |-> href]

\* n anchors, titled base + k, linked to path + k
GenAnchors(n, base, path) ==
    [k \in 1..n |-> An(base \o NumToks(k), path \o NumToks(k))]

\* A bulletin with a text layer of 80 characters or more
LongText == Flatten(<<BlockA, BlockB, LineTitle>>, <<"\n">>)

\* One whose first block has nothing after its colon
ColonText == Flatten(<<LineColonLast, BlockB, BlockA>>, <<"\n">>)

\* A scanned bulletin: under 80 characters of text
ScannedText == Flatten(<<LineTitle, LineShort>>, <<"\n">>)

WgljPage(k) == WGLJ_ORIGIN \o <<"/", "ztmb", "/", "p">> \o NumToks(k) \o <<".html">>

\* the anchors of the agency's index page, n of them generated
WgljIndexAnchors(n) ==
    << An(<<" ", "huo", "dong", "pai_row", "qi", " ", " ", "jing", "xuan", "\n">>,
          <<"/", "ztmb", "/", "p", "1", ".html">>),
       An(<<"wang", "hong", "da", "ka_card", "di", "huo", "dong">>,
          <<"/", "ztmb", "/", "p", "2", ".html">>),
       An(<<"shou_first", "ye_page">>, <<"/", "index.html">>),
       An(<<"jing", "xuan", "zhan", "lan">>, <<"javascript:void(0)">>),
       An(<<>>, <<"/", "ztmb", "/", "p", "1", ".html">>),
       An(<<"pai_row", "qi", "jing", "xuan">>, WgljPage(3)) >>
    \o GenAnchors(6 * n, <<"huo", "dong">>, <<"/", "ztmb", "/", "g">>)

\* the anchors of the announcement pages the index links to
WgljPageAnchors(url) ==
    IF url = WgljPage(1)
    THEN << An(<<"fu", "jian", "1">>, <<"a", ".PDF">>),
            An(<<"xia", "zai">>, <<"/", "download", "/", "b">>),
            An(<<"fu", "jian", "1">>, <<"a", ".PDF">>),
            An(<<"shou_first", "ye_page">>, <<"/", "index.html">>),
            An(<<"fu", "jian", "2">>, <<"/", "file", "/", "c", ".pdf", "?", "v=1">>),
            An(<<"fu", "jian", "3">>, <<"/", "attach", "/", "d">>) >>
    ELSE IF url = WgljPage(2)
    THEN << An(<<"fu", "jian", "1">>, WGLJ_ORIGIN \o <<"/", "ztmb", "/", "a", ".PDF">>) >>
    ELSE <<>>

\* the text layer of the bulletins
PdfTextOf(url) ==
    IF url = WGLJ_ORIGIN \o <<"/", "ztmb", "/", "a", ".PDF">> THEN LongText
    ELSE IF url = WGLJ_ORIGIN \o <<"/", "download", "/", "b">> THEN ScannedText
    ELSE IF url = WGLJ_ORIGIN \o <<"/", "file", "/", "c", ".pdf", "?", "v=1">> THEN ColonText
    ELSE <<>>

DoubanEvent(id) == <<"http", "s", "://", "www.", "douban.com", "/", "event", "/">> \o id \o <<"/">>

\* the anchors of category c's list page at offset start, n of them generated
DoubanPageAnchors(n, c, start) ==
    LET cp == NumToks(c) \o NumToks(start)
    IN  GenAnchors(n, <<"zhan", "lan">>,
                   <<"http", "s", "://", "www.", "douban.com", "/", "event", "/">> \o cp)
        \o << An(<<"tuo", "kou", "xiu", "yue", "hui_meet", "zhi", "ye">>,
                 <<"/", "event", "/", "9">> \o cp),
              An(<<"wang", "hong", "da", "ka_card", "yue", "hui_meet", "zhuan", "chang">>,
                 DoubanEvent(<<"8">> \o cp)),
              An(<<"tuo", "kou", "xiu", " ", "yue", "hui_meet", "zhi", "ye">>,
                 <<"/", "event", "/", "9">> \o cp),
              An(<<"tuo", "kou", "xiu", "yue", "hui_meet", "zhi", "ye">>,
                 <<"/", "event", "/", "9">> \o cp),
              An(<<"guan_about", "yu_about">>, <<"http", "s", "://", "www.", "douban.com", "/", "about">>),
              An(<<" ">>, DoubanEvent(<<"6">> \o cp)) >>
        \o (IF start = 0
            THEN << An(<<"jiao", "xiang", "yin", "yue_music", "hui_meet">>, DoubanEvent(<<"7">>)) >>
            ELSE <<>>)

GdHomeAnchors(n) ==
    << An(<<"ying", "xin", "shou", "gong_work", "fang", "huo", "dong">>,
          <<"/", "col108", "/", "e", "1">>),
       An(<<"ying", "xin", "huo", "dong">>, <<"http", "://", "evil.example", "/", "x">>),
       An(<<"gong_work", "fang", "jie", "shao">>, <<"list.html">>),
       An(<<"wang", "hong", "huo", "dong">>, <<"/", "x">>),
       An(<<"guan_about", "yu_about", "wo", "men">>, <<"/", "about">>),
       An(<<"huo", "dong">>, <<>>) >>
    \o GenAnchors(7 * n, <<"huo", "dong">>, <<"/", "col1", "/">>)

GdListAnchors(n) ==
    << An(<<"ying", "xin", "shou", "gong_work", "fang", "huo", "dong">>,
          <<"/", "col108", "/", "e", "1">>),
       An(<<"yue_guangdong", "bo", "chun", "ji", "shou", "gong_work", "fang">>,
          <<"http", "s", "://", "evil.example", "/", "?", "ref=", "gdmuseum.com">>),
       An(<<"huo", "dong">>, <<"/", "a">>),
       An(<<"chun", "ji", "shou", "gong_work", "fang", "zhan", "lan">>,
          <<"http", "s", "://", "other.example", "/", "y">>),
       An(<<"wang", "hong", "da", "ka_card", "di", "zhan", "lan">>, <<"/", "b">>) >>
    \o GenAnchors(12 * n, <<"chun", "ji", "shou", "gong_work", "fang">>, <<"/", "col108", "/">>)

GzAnchors(n, url) ==
    << An(<<"zhuan", "ti", "zhan", "lan", "hui_back", "gu">>,
          <<"http", "://", "evil.example", "/", "z">>),
       An(<<"zhan", "lan", "yu_pre", "gao", "zhuan", "ti">>, <<"javascript:void(0)">>),
       An(<<"shou_first", "ye_page">>, <<"/", "index.aspx">>),
       An(<<"guang", "zhou", "bo", "wu_thing", "guan", "gai", "kuang">>, <<"/", "about">>),
       An(<<"wang", "hong", "da", "ka_card", "di", "zhan", "lan">>, <<"/", "b">>),
       An(<<"chun", "ji", "zhuan", "ti", "zhan", "lan">>, <<"/", "website_cn", "/", "e">>) >>
    \o GenAnchors(3 * n, <<"zhuan", "ti", "zhan", "lan", "di">>,
                  IF url = GZMUSEUM_EXHIBITION_LIST THEN <<"/", "ex", "/">> ELSE <<"/", "pre", "/">>)

NoFault == <<"none">>

\* http_get / http_get_bytes: whether the request of url succeeds under web w
Served(w, url) == ~(w.kind = "transport" /\ w.fault = url)

\* BeautifulSoup / fitz.open: whether what url returned decodes
Decodes(w, url) == ~(w.kind = "decode" /\ w.fault = url)

\* the anchors soup.select("a") yields for the page at url
HtmlAnchors(w, url) ==
    IF url = WGLJ_SCHEDULE_INDEX THEN WgljIndexAnchors(w.n)
    ELSE IF url = GDMUSEUM_HOME THEN GdHomeAnchors(w.n)
    ELSE IF url = GDMUSEUM_ACTIVITY_LIST THEN GdListAnchors(w.n)
    ELSE IF url \in {GZMUSEUM_EXHIBITION_LIST, GZMUSEUM_EXHIBITION_PRE} THEN GzAnchors(w.n, url)
    ELSE IF \E c \in 1..Len(DOUBAN_PAGES) : StartsWith(url, DOUBAN_PAGES[c].url)
    THEN LET c == CHOOSE c \in 1..Len(DOUBAN_PAGES) : StartsWith(url, DOUBAN_PAGES[c].url)
             q == Drop(url, Len(DOUBAN_PAGES[c].url) + 1)
             val(t) == CHOOSE k \in 0..9 : Dig[k + 1] = t
             start == IF q = <<>> THEN 0
                      ELSE IF Len(q) = 1 THEN val(q[1])
                      ELSE 10 * val(q[1]) + val(q[2])
         IN  DoubanPageAnchors(w.n, c, start)
    ELSE WgljPageAnchors(url)

-----------------------------------------------------------------------------
(* Source adapters *)

Strip(s) == RStrip(LStrip(s))

EndsWith(s, p) == Len(p) <= Len(s) /\ SubSeq(s, Len(s) - Len(p) + 1, Len(s)) = p

RECURSIVE UniqFrom(_, _)
\* the "seen" loops of lines 95-101 and 344-351: first occurrences, in order
UniqFrom(s, acc) ==
    IF s = <<>> THEN acc
    ELSE UniqFrom(Tail(s), IF Member(acc, s[1]) THEN acc ELSE Append(acc, s[1]))

\* lines 88 and 92: an href that is kept as a PDF link
IsPdfHref(href) ==
    LET l == Lower(href)
    IN  \/ EndsWith(l, <<".pdf">>)
        \/ Contains(l, <<".pdf", "?">>)
        \/ \E x \in { <<"download">>, <<"attach">>, <<"fu", "jian">>, <<"file">> } :
               Contains(l, x)

RECURSIVE PdfHrefs(_, _)
PdfHrefs(anchors, page_url) ==
    IF anchors = <<>> THEN <<>>
    ELSE LET href == Strip(anchors[1].href)
         IN  (IF href # <<>> /\ IsPdfHref(href) THEN <<urljoin(page_url, href)>> ELSE <<>>)
             \o PdfHrefs(Tail(anchors), page_url)

\* find_pdf_links_in_page: ok is FALSE when it raises
find_pdf_links_in_page(w, page_url) ==
    IF Served(w, page_url) /\ Decodes(w, page_url)
    THEN [ok |-> TRUE, links |-> UniqFrom(PdfHrefs(HtmlAnchors(w, page_url), page_url), <<>>)]
    ELSE [ok |-> FALSE, links |-> <<>>]

\* lines 301-317: the events of one PDF, none when it fails or is a scan
PdfEvents(w, pdf_url) ==
    IF Served(w, pdf_url) /\ Decodes(w, pdf_url)
    THEN IF Len(norm(PdfTextOf(pdf_url))) < 80
         THEN <<>>
         ELSE split_events_from_pdf_text(PdfTextOf(pdf_url), pdf_url)
    ELSE <<>>

RECURSIVE PdfEventsOfAll(_, _)
PdfEventsOfAll(w, urls) ==
    IF urls = <<>> THEN <<>>
    ELSE PdfEvents(w, urls[1]) \o PdfEventsOfAll(w, Tail(urls))

\* lines 297-320, read as the body of the loop they follow
PdfFollow(w, href) ==
    LET r == find_pdf_links_in_page(w, href)
    IN  IF r.ok THEN PdfEventsOfAll(w, Take(r.links, 3)) ELSE <<>>

WgljItem(name, href) == make_item([
    type |-> "event", name |-> name,
    area |-> <<"area:citywide">>,
    cost |-> "low", reservation |-> "maybe",
    tags |-> <<"official-news", "event-list">>,
    transitEase |-> 3, transferComplexity |-> 3, timeMin |-> 75,
    intensity |-> "low", crowdRisk |-> 3, checkin |-> 1,
    openHoursHint |-> <<"hours:open-source-page">>,
    notes |-> <<"notes:wglj-index">>,
    link |-> href, source |-> "wglj.gz.gov.cn/hdpq" ])

\* lines 269-320: what one anchor adds, nothing when a continue skips it
WgljYield(w, name, href0, href) ==
    IF name = <<>> \/ href0 = <<>> THEN <<>>
    ELSE IF /\ ~Contains(name, <<"huo", "dong">>)
            /\ ~Contains(name, <<"pai_row", "qi">>)
            /\ ~Contains(name, <<"jing", "xuan">>)
         THEN <<>>
    ELSE IF ~StartsWith(href, <<"http">>) THEN <<>>
    ELSE <<WgljItem(name, href)>> \o PdfFollow(w, href)

\* lines 269-276
WgljAnchor(w, a) ==
    WgljYield(w, norm(a.text), a.href,
              IF StartsWith(a.href, <<"/">>) THEN WGLJ_ORIGIN \o a.href ELSE a.href)

RECURSIVE WgljLoop(_, _, _, _, _)
RECURSIVE WgljAfter(_, _, _, _, _, _)
\* lines 322-323: the break, reached only by an anchor that was not skipped
WgljAfter(w, anchors, i, its, got, limit) ==
    IF got # <<>> /\ Len(its) + Len(got) >= limit THEN its \o got
    ELSE WgljLoop(w, anchors, i + 1, its \o got, limit)

\* lines 268-323
WgljLoop(w, anchors, i, its, limit) ==
    IF i > Len(anchors) THEN its
    ELSE WgljAfter(w, anchors, i, its, WgljAnchor(w, anchors[i]), limit)

parse_wglj_schedule_index(w, limit) ==
    IF Served(w, WGLJ_SCHEDULE_INDEX) /\ Decodes(w, WGLJ_SCHEDULE_INDEX)
    THEN WgljLoop(w, HtmlAnchors(w, WGLJ_SCHEDULE_INDEX), 1, <<>>, limit)
    ELSE <<>>

\* line 340
IsEventHref(href) ==
    \/ Contains(href, <<"douban.com", "/", "event", "/">>)
    \/ \E i \in 1..Len(href) :
         OccursAt(href, <<"/", "event", "/">>, i) /\ CharAt(href, i + 3) \in Digit

RECURSIVE EventPairs(_)
\* lines 335-341
EventPairs(anchors) ==
    IF anchors = <<>> THEN <<>>
    ELSE (IF norm(anchors[1].text) # <<>> /\ IsEventHref(anchors[1].href)
          THEN << <<norm(anchors[1].text), anchors[1].href>> >>
          ELSE <<>>)
         \o EventPairs(Tail(anchors))

extract_douban_event_links(anchors) == UniqFrom(EventPairs(anchors), <<>>)

DoubanItem(name, href, category_name) == make_item([
    type |-> "event", name |-> name,
    area |-> <<"area:see-detail">>,
    date |-> <<>>, timeHint |-> <<>>,
    cost |-> "mid", reservation |-> "maybe",
    tags |-> <<"city-events", category_name>>,
    transitEase |-> 3, transferComplexity |-> 3, timeMin |-> 85,
    intensity |-> "low", crowdRisk |-> 3, checkin |-> 2,
    openHoursHint |-> <<"hours:see-detail">>,
    notes |-> <<"notes:douban-list">>,
    link |-> href, source |-> category_name ])

RECURSIVE DoubanLinkItems(_, _)
\* lines 370-396
DoubanLinkItems(links, category_name) ==
    IF links = <<>> THEN <<>>
    ELSE (IF looks_bad(links[1][1]) THEN <<>>
          ELSE <<DoubanItem(links[1][1], links[1][2], category_name)>>)
         \o DoubanLinkItems(Tail(links), category_name)

RECURSIVE DoubanLoop(_, _, _, _, _, _, _)
\* lines 360-398: raised is TRUE when an exception leaves the function
DoubanLoop(w, category_name, base_url, i, pages, page_step, acc) ==
    LET url == DoubanPageUrl(base_url, i * page_step)
    IN  IF i >= pages THEN [raised |-> FALSE, items |-> acc]
        ELSE IF ~Served(w, url)
             THEN DoubanLoop(w, category_name, base_url, i + 1, pages, page_step, acc)
        ELSE IF ~Decodes(w, url) THEN [raised |-> TRUE, items |-> acc]
        ELSE DoubanLoop(w, category_name, base_url, i + 1, pages, page_step,
                        acc \o DoubanLinkItems(extract_douban_event_links(HtmlAnchors(w, url)),
                                               category_name))

parse_douban_list(w, category_name, base_url, pages, page_step) ==
    DoubanLoop(w, category_name, base_url, 0, pages, page_step, <<>>)

GdItem(name, href, hours, notes, source) == make_item([
    type |-> "event", name |-> name,
    area |-> <<"area:gdmuseum">>,
    cost |-> "low", reservation |-> "maybe",
    tags |-> <<"official-venue", "gdmuseum", "indoor">>,
    transitEase |-> 3, transferComplexity |-> 3, timeMin |-> 80,
    intensity |-> "low", crowdRisk |-> 3, checkin |-> 1,
    openHoursHint |-> hours, notes |-> notes,
    link |-> href, source |-> source ])

RECURSIVE GdHomeLoop(_, _, _, _)
\* lines 407-438
GdHomeLoop(anchors, i, its, limit) ==
    IF i > Len(anchors) THEN its
    ELSE LET name == norm(anchors[i].text)
             href0 == anchors[i].href
             href == IF StartsWith(href0, <<"/">>) THEN GDMUSEUM_ORIGIN \o href0 ELSE href0
             its2 == Append(its, GdItem(name, href, <<"hours:gdmuseum-notice">>,
                                        <<"notes:gdmuseum-home">>, "gdmuseum.com/home"))
         IN  IF name = <<>> \/ href0 = <<>> THEN GdHomeLoop(anchors, i + 1, its, limit)
             ELSE IF /\ ~Contains(name, <<"huo", "dong">>)
                     /\ ~Contains(name, <<"gong_work", "fang">>)
                     /\ ~Contains(name, <<"ying", "xin">>)
                  THEN GdHomeLoop(anchors, i + 1, its, limit)
             ELSE IF ~StartsWith(href, <<"http">>) THEN GdHomeLoop(anchors, i + 1, its, limit)
             ELSE IF looks_bad(name) THEN GdHomeLoop(anchors, i + 1, its, limit)
             ELSE IF Len(its2) >= limit THEN its2
             ELSE GdHomeLoop(anchors, i + 1, its2, limit)

RECURSIVE GdListLoop(_, _, _, _)
\* lines 446-477
GdListLoop(anchors, i, its, limit) ==
    IF i > Len(anchors) THEN its
    ELSE LET name == norm(anchors[i].text)
             href0 == anchors[i].href
             href == IF StartsWith(href0, <<"/">>) THEN GDMUSEUM_ORIGIN \o href0 ELSE href0
             its2 == Append(its, GdItem(name, href, <<"hours:activity-page">>,
                                        <<"notes:gdmuseum-list">>, "gdmuseum.com/col108"))
         IN  IF name = <<>> \/ href0 = <<>> THEN GdListLoop(anchors, i + 1, its, limit)
             ELSE IF looks_bad(name) THEN GdListLoop(anchors, i + 1, its, limit)
             ELSE IF ~Contains(href, <<"gdmuseum.com">>) THEN GdListLoop(anchors, i + 1, its, limit)
             ELSE IF Len(name) < 6 THEN GdListLoop(anchors, i + 1, its, limit)
             ELSE IF Len(its2) >= limit * 2 THEN its2
             ELSE GdListLoop(anchors, i + 1, its2, limit)

\* lines 403-440: the items after the home page
GdAfterHome(w, limit) ==
    IF Served(w, GDMUSEUM_HOME) /\ Decodes(w, GDMUSEUM_HOME)
    THEN GdHomeLoop(HtmlAnchors(w, GDMUSEUM_HOME), 1, <<>>, limit)
    ELSE <<>>

parse_gdmuseum_activities(w, limit) ==
    IF Served(w, GDMUSEUM_ACTIVITY_LIST) /\ Decodes(w, GDMUSEUM_ACTIVITY_LIST)
    THEN GdListLoop(HtmlAnchors(w, GDMUSEUM_ACTIVITY_LIST), 1, GdAfterHome(w, limit), limit)
    ELSE GdAfterHome(w, limit)

GzItem(name, link, source) == make_item([
    type |-> "event", name |-> name,
    area |-> <<"area:gzmuseum">>,
    cost |-> "low", reservation |-> "maybe",
    tags |-> <<"official-venue", "museum", "exhibition", "indoor">>,
    transitEase |-> 3, transferComplexity |-> 3, timeMin |-> 85,
    intensity |-> "low", crowdRisk |-> 3, checkin |-> 1,
    openHoursHint |-> <<"hours:gzmuseum-site">>,
    notes |-> <<"notes:gzmuseum">>,
    link |-> link, source |-> source ])

RECURSIVE GzLoop(_, _, _, _, _, _)
\* lines 494-530
GzLoop(anchors, i, its, url, source, limit) ==
    IF i > Len(anchors) THEN its
    ELSE LET name == norm(anchors[i].text)
             href0 == anchors[i].href
             href1 == IF StartsWith(href0, <<"/">>) THEN GZMUSEUM_ORIGIN \o href0 ELSE href0
             href == IF href1 # <<>> /\ ~StartsWith(href1, <<"http">>) THEN <<>> ELSE href1
             its2 == Append(its, GzItem(name, IF href # <<>> THEN href ELSE url, source))
         IN  IF name = <<>> THEN GzLoop(anchors, i + 1, its, url, source, limit)
             ELSE IF Len(name) < 6 THEN GzLoop(anchors, i + 1, its, url, source, limit)
             ELSE IF \/ Contains(name, <<"shou_first", "ye_page">>)
                     \/ Contains(name, <<"gai", "kuang">>)
                     \/ Contains(name, <<"dong", "tai">>)
                  THEN GzLoop(anchors, i + 1, its, url, source, limit)
             ELSE IF looks_bad(name) THEN GzLoop(anchors, i + 1, its, url, source, limit)
             ELSE IF Len(its2) >= limit THEN its2
             ELSE GzLoop(anchors, i + 1, its2, url, source, limit)

\* lines 488-532 for one of the two pages
GzPage(w, its, url, source, limit) ==
    IF Served(w, url) /\ Decodes(w, url)
    THEN GzLoop(HtmlAnchors(w, url), 1, its, url, source, limit)
    ELSE its

\* the items after the first page
GzAfterList(w, limit) ==
    GzPage(w, <<>>, GZMUSEUM_EXHIBITION_LIST, "guangzhoumuseum.cn/exhibition", limit)

parse_gzmuseum_exhibitions(w, limit) ==
    GzPage(w, GzAfterList(w, limit), GZMUSEUM_EXHIBITION_PRE, "guangzhoumuseum.cn/pre", limit)

-----------------------------------------------------------------------------
(* The aggregator: main *)

WGLJ_LIMIT == 25

DOUBAN_LIST_PAGES == 8

DOUBAN_PAGE_STEP == 10

GDMUSEUM_LIMIT == 25

GZMUSEUM_LIMIT == 20

MAX_ITEMS == 220

\* line 566
filter_pass(its) ==
    LET Kept(it) == it.name # <<>> /\ ~looks_bad(it.name)
    IN  SelectSeq(its, Kept)

\* line 541
Key(it) == <<it.name, it.link>>

\* line 542 when the loop reaches its[i]: seen holds the keys of the items before it
InSeen(its, i) == \E j \in 1..(i - 1) : Key(its[j]) = Key(its[i])

\* a repeated key overwrites the item kept for it
dedupe_keep_last(its) ==
    LET Fresh(i) == ~InSeen(its, i)
        kept == SelectSeq(Indices(its), Fresh)
        Last(i) == CHOOSE j \in i..Len(its) :
                      /\ Key(its[j]) = Key(its[i])
                      /\ \A l \in (j + 1)..Len(its) : Key(its[l]) # Key(its[i])
    IN  [k \in 1..Len(kept) |-> its[Last(kept[k])]]

\* lines 535-546
dedupe(its) ==
    LET Fresh(i) == ~InSeen(its, i)
        kept == SelectSeq(Indices(its), Fresh)
    IN  [k \in 1..Len(kept) |-> its[kept[k]]]

\* the slice one item too long
cap_one_more(its) == Take(its, MAX_ITEMS + 1)

\* lines 570-571
cap(its) == Take(its, MAX_ITEMS)

\* Most generated anchors per list page, the scale of the served content
MaxPerPage == 4

DoubanUrls ==
    {DoubanPageUrl(DOUBAN_PAGES[c].url, i * DOUBAN_PAGE_STEP) :
        c \in 1..Len(DOUBAN_PAGES), i \in 0..(DOUBAN_LIST_PAGES - 1)}

VenueUrls ==
    {GDMUSEUM_HOME, GDMUSEUM_ACTIVITY_LIST, GZMUSEUM_EXHIBITION_LIST, GZMUSEUM_EXHIBITION_PRE}

\* the endpoints main is configured with
ConfiguredUrls == {WGLJ_SCHEDULE_INDEX} \cup DoubanUrls \cup VenueUrls

\* the pages and bulletins the index leads to
FollowedUrls ==
    {WgljPage(1), WgljPage(2),
     WGLJ_ORIGIN \o <<"/", "ztmb", "/", "a", ".PDF">>,
     WGLJ_ORIGIN \o <<"/", "file", "/", "c", ".pdf", "?", "v=1">>}

\* the endpoints that may fail: of the list pages, each category's first and last
FaultUrls ==
    {WGLJ_SCHEDULE_INDEX} \cup VenueUrls \cup FollowedUrls
    \cup {DoubanPageUrl(DOUBAN_PAGES[c].url, i * DOUBAN_PAGE_STEP) :
            c \in 1..Len(DOUBAN_PAGES), i \in {0, DOUBAN_LIST_PAGES - 1}}

\* The web of one run: the content's scale, and at most one endpoint that fails
\* (kind "transport": the request raises; "decode": what it returned does not parse)
Webs ==
    {[n |-> n, fault |-> NoFault, kind |-> "none"] : n \in 0..MaxPerPage}
    \cup {[n |-> n, fault |-> u, kind |-> k] :
            n \in 0..MaxPerPage, u \in FaultUrls, k \in {"transport", "decode"}}

others == <<filterVars, itemVars, pdfVars>>

\* line 552
Wglj ==
    /\ pc = "wglj"
    /\ items' = items \o parse_wglj_schedule_index(web, WGLJ_LIMIT)
    /\ pc' = "douban"
    /\ UNCHANGED <<web, filtered, deduped, final, out, ci, others>>

\* lines 555-557, one category: an exception of parse_douban_list ends main
Douban ==
    /\ pc = "douban"
    /\ LET r == parse_douban_list(web, DOUBAN_PAGES[ci].name, DOUBAN_PAGES[ci].url,
                                  DOUBAN_LIST_PAGES, DOUBAN_PAGE_STEP)
       IN  IF r.raised
           THEN pc' = "crashed" /\ UNCHANGED <<items, ci>>
           ELSE /\ items' = items \o r.items
                /\ IF ci = Len(DOUBAN_PAGES)
                   THEN pc' = "gdmuseum" /\ ci' = ci
                   ELSE pc' = "douban" /\ ci' = ci + 1
    /\ UNCHANGED <<web, filtered, deduped, final, out, others>>

\* line 560
Gdmuseum ==
    /\ pc = "gdmuseum"
    /\ items' = items \o parse_gdmuseum_activities(web, GDMUSEUM_LIMIT)
    /\ pc' = "gzmuseum"
    /\ UNCHANGED <<web, filtered, deduped, final, out, ci, others>>

\* line 563
Gzmuseum ==
    /\ pc = "gzmuseum"
    /\ items' = items \o parse_gzmuseum_exhibitions(web, GZMUSEUM_LIMIT)
    /\ pc' = "filter"
    /\ UNCHANGED <<web, filtered, deduped, final, out, ci, others>>

\* line 566
Filter ==
    /\ pc = "filter"
    /\ filtered' = filter_pass(items)
    /\ pc' = "dedupe"
    /\ UNCHANGED <<web, items, deduped, final, out, ci, others>>

\* line 567
Dedupe ==
    /\ pc = "dedupe"
    /\ deduped' = dedupe(filtered)
    /\ pc' = "cap"
    /\ UNCHANGED <<web, items, filtered, final, out, ci, others>>

\* lines 570-571
Cap ==
    /\ pc = "cap"
    /\ final' = cap(deduped)
    /\ pc' = "write"
    /\ UNCHANGED <<web, items, filtered, deduped, out, ci, others>>

\* lines 573-585
Write ==
    /\ pc = "write"
    /\ out' = [ items |-> final,
                meta |-> [ generatedAt |-> "now",
                           sources |-> <<WGLJ_SCHEDULE_INDEX>>
                                       \o [c \in 1..Len(DOUBAN_PAGES) |-> DOUBAN_PAGES[c].url]
                                       \o <<GDMUSEUM_HOME, GDMUSEUM_ACTIVITY_LIST,
                                            GZMUSEUM_EXHIBITION_LIST>>,
                           notes |-> "max=220" ] ]
    /\ pc' = "done"
    /\ UNCHANGED <<web, items, filtered, deduped, final, ci, others>>

-----------------------------------------------------------------------------
(* Specifications: one per component, the other components at rest *)

\* the content filter over every enumerated title
FilterInit ==
    /\ title \in Titles /\ verdict = "none"
    /\ kw = <<>> /\ built = <<>>
    /\ pdf_text = <<>> /\ lines = <<>> /\ cursor = 0
    /\ buf = <<>> /\ events = <<>> /\ blocks = <<>> /\ ppc = "idle"
    /\ web = <<>> /\ items = <<>> /\ filtered = <<>> /\ deduped = <<>>
    /\ final = <<>> /\ out = <<>> /\ ci = 0 /\ pc = "idle"

FilterNext == ApplyFilter

SpecFilter == FilterInit /\ [][FilterNext]_vars

\* the item builder over every enumerated keyword mapping
ItemInit ==
    /\ title = <<>> /\ verdict = "idle"
    /\ kw = <<>> /\ built = <<>>
    /\ pdf_text = <<>> /\ lines = <<>> /\ cursor = 0
    /\ buf = <<>> /\ events = <<>> /\ blocks = <<>> /\ ppc = "idle"
    /\ web = <<>> /\ items = <<>> /\ filtered = <<>> /\ deduped = <<>>
    /\ final = <<>> /\ out = <<>> /\ ci = 0 /\ pc = "idle"

ItemNext == AddField \/ Build

SpecItem == ItemInit /\ [][ItemNext]_vars

\* the segmentation engine over every enumerated bulletin
PdfInit ==
    /\ title = <<>> /\ verdict = "idle"
    /\ kw = <<>> /\ built = <<>>
    /\ pdf_text \in {Flatten(b, <<"\n">>) : b \in Bulletins}
    /\ lines = <<>> /\ cursor = 0
    /\ buf = <<>> /\ events = <<>> /\ blocks = <<>> /\ ppc = "start"
    /\ web = <<>> /\ items = <<>> /\ filtered = <<>> /\ deduped = <<>>
    /\ final = <<>> /\ out = <<>> /\ ci = 0 /\ pc = "idle"

PdfNext == PdfStart \/ PdfLine \/ PdfFinish

SpecPdf == PdfInit /\ [][PdfNext]_vars

\* Most lines in a bulletin of the loop specification
MaxLoopLines == 7

\* "3月5日 开幕": a date line of fewer than 11 characters
LineDate == <<"3", "yue_month", "5", "ri", " ", "kai", "mu">>

\* the kinds of line the loop tells apart: with a date token, without one and
\* longer than 10 characters, without one and of 4 to 10 characters
LoopKinds == {LineDate, LineTitle, LineShort}

\* line i of a bulletin carries its number, so no two lines of it are equal
Numbered(b) == [i \in 1..Len(b) |-> b[i] \o NumToks(i)]

LoopBulletins == {Numbered(b) : b \in UNION {[1..n -> LoopKinds] : n \in 0..MaxLoopLines}}

\* the segmentation loop over every bulletin of numbered lines
LoopInit ==
    /\ title = <<>> /\ verdict = "idle"
    /\ kw = <<>> /\ built = <<>>
    /\ pdf_text \in {Flatten(b, <<"\n">>) : b \in LoopBulletins}
    /\ lines = <<>> /\ cursor = 0
    /\ buf = <<>> /\ events = <<>> /\ blocks = <<>> /\ ppc = "start"
    /\ web = <<>> /\ items = <<>> /\ filtered = <<>> /\ deduped = <<>>
    /\ final = <<>> /\ out = <<>> /\ ci = 0 /\ pc = "idle"

SpecLoop == LoopInit /\ [][PdfNext]_vars

\* one run of main over every enumerated web
Init ==
    /\ title = <<>> /\ verdict = "idle"
    /\ kw = <<>> /\ built = <<>>
    /\ pdf_text = <<>> /\ lines = <<>> /\ cursor = 0
    /\ buf = <<>> /\ events = <<>> /\ blocks = <<>> /\ ppc = "idle"
    /\ web \in Webs
    /\ items = <<>> /\ filtered = <<>> /\ deduped = <<>> /\ final = <<>> /\ out = <<>>
    /\ ci = 1 /\ pc = "wglj"

Next == Wglj \/ Douban \/ Gdmuseum \/ Gzmuseum \/ Filter \/ Dedupe \/ Cap \/ Write

Spec == Init /\ [][Next]_vars

-----------------------------------------------------------------------------
(* Properties of main, under Spec *)

\* the first index of its whose item has key k; 0 if there is none
FirstAt(its, k) ==
    LET at == {p \in 1..Len(its) : Key(its[p]) = k}
    IN  IF at = {} THEN 0 ELSE CHOOSE p \in at : \A q \in at : p <= q

\* C1: the written items list holds no two items with the same (name, link);
\* each item in it is the first item of the concatenated adapter output that
\* has its (name, link), with every field as the adapter gave it; and the
\* items stand in the order of those first occurrences.
C1_DedupKeepsFirst ==
    pc = "done" =>
        LET kept == out.items
            pos == [i \in 1..Len(kept) |-> FirstAt(items, Key(kept[i]))]
        IN  /\ Cardinality({Key(kept[i]) : i \in 1..Len(kept)}) = Len(kept)
            /\ \A i \in 1..Len(kept) : pos[i] >= 1 /\ items[pos[i]] = kept[i]
            /\ \A i \in 1..(Len(kept) - 1) : pos[i] < pos[i + 1]

\* a run is done in which two adapters gave items with one (name, link) and
\* different other fields, and the earlier one is in the written list
C1_Witness ==
    /\ pc = "done"
    /\ \E i \in 1..Len(out.items) :
         \E q \in 1..Len(items) :
            /\ Key(items[q]) = Key(out.items[i])
            /\ items[q] # out.items[i]
            /\ items[q].source # out.items[i].source
            /\ q > FirstAt(items, Key(out.items[i]))

\* C2: with S the items after the filter pass and the dedup, the written items
\* list has min(|S|, MAX_ITEMS) items and is that prefix of S, in order.
C2_CapIsPrefix ==
    pc = "done" =>
        /\ deduped = dedupe(filter_pass(items))
        /\ Len(out.items) = Min(Len(deduped), MAX_ITEMS)
        /\ \A i \in 1..Len(out.items) : out.items[i] = deduped[i]

\* a run is done in which more than MAX_ITEMS items were left after the dedup
C2_Witness ==
    /\ pc = "done"
    /\ Len(deduped) > MAX_ITEMS
    /\ Len(out.items) = MAX_ITEMS

\* the web w with its failing endpoint repaired
Healthy(w) == [w EXCEPT !.fault = NoFault, !.kind = "none"]

\* what the list page at url gives parse_douban_list in a run over w
DoubanPageYield(w, url) ==
    IF Served(w, url)
    THEN Len(DoubanLinkItems(extract_douban_event_links(HtmlAnchors(w, url)), "category"))
    ELSE 0

\* the number of items the configured endpoint url contributes in a run over w
EndpointYield(w, url) ==
    IF url = WGLJ_SCHEDULE_INDEX THEN Len(parse_wglj_schedule_index(w, WGLJ_LIMIT))
    ELSE IF url = GDMUSEUM_HOME THEN Len(GdAfterHome(w, GDMUSEUM_LIMIT))
    ELSE IF url = GDMUSEUM_ACTIVITY_LIST
    THEN Len(parse_gdmuseum_activities(w, GDMUSEUM_LIMIT)) - Len(GdAfterHome(w, GDMUSEUM_LIMIT))
    ELSE IF url = GZMUSEUM_EXHIBITION_LIST THEN Len(GzAfterList(w, GZMUSEUM_LIMIT))
    ELSE IF url = GZMUSEUM_EXHIBITION_PRE
    THEN Len(parse_gzmuseum_exhibitions(w, GZMUSEUM_LIMIT)) - Len(GzAfterList(w, GZMUSEUM_LIMIT))
    ELSE DoubanPageYield(w, url)

RECURSIVE SumYields(_, _)
\* the yields of the endpoints in urls, added up
SumYields(w, urls) ==
    IF urls = {} THEN 0
    ELSE LET u == CHOOSE u \in urls : TRUE
         IN  EndpointYield(w, u) + SumYields(w, urls \ {u})

\* C5: when the fetch of one configured endpoint raises a transport error,
\* that endpoint contributes no item, every other endpoint contributes as many
\* items as in the run where the fetch succeeds, and the items before the
\* dedup number the sum of the other endpoints' normal yields.
C5_EndpointIsolation ==
    (pc = "filter" /\ web.kind = "transport" /\ web.fault \in ConfiguredUrls) =>
        /\ EndpointYield(web, web.fault) = 0
        /\ \A u \in ConfiguredUrls \ {web.fault} :
              EndpointYield(web, u) = EndpointYield(Healthy(web), u)
        /\ Len(items) = SumYields(Healthy(web), ConfiguredUrls \ {web.fault})

\* C6: whatever endpoint fails to fetch or to decode, no error leaves an
\* adapter and ends main before the dataset is written.
C6_NoErrorReachesMain == pc # "crashed"

\* C7: no item an adapter returns has a name the content filter rejects, and
\* the filter pass of main removes nothing from the adapters' output.
C7_FilterRemovesNothing ==
    pc = "dedupe" =>
        /\ \A i \in 1..Len(items) : ~looks_bad(items[i].name)
        /\ filtered = items

\* the origin of the venue whose adapter names itself source
VenueOrigin(source) ==
    IF source \in {"gdmuseum.com/home", "gdmuseum.com/col108"}
    THEN GDMUSEUM_ORIGIN ELSE GZMUSEUM_ORIGIN

\* link is the origin or a path under it
InsideOrigin(link, origin) ==
    link = origin \/ StartsWith(link, origin \o <<"/">>)

\* C10: every item a venue-page adapter returns has a link inside the origin
\* of its venue.
C10_VenueLinksInsideOrigin ==
    pc = "filter" =>
        \A i \in 1..Len(items) :
            items[i].source \in {"gdmuseum.com/home", "gdmuseum.com/col108",
                                 "guangzhoumuseum.cn/exhibition", "guangzhoumuseum.cn/pre"}
            => InsideOrigin(items[i].link, VenueOrigin(items[i].source))

-----------------------------------------------------------------------------
(* Properties of the content filter, under SpecFilter *)

\* C3: a title is rejected exactly when its normalized form contains a hard
\* keyword; with a hard and a soft keyword it is rejected, with soft keywords
\* only it is accepted.
C3_HardKeywordDecides ==
    verdict \in {"accept", "reject"} =>
        LET t == norm(title)
            hard == \E i \in 1..Len(BAD_KEYWORDS) : Contains(t, BAD_KEYWORDS[i])
            soft == \E i \in 1..Len(SOFT_BAD_KEYWORDS) : Contains(t, SOFT_BAD_KEYWORDS[i])
        IN  /\ verdict = "reject" <=> hard
            /\ (hard /\ soft) => verdict = "reject"
            /\ (soft /\ ~hard) => verdict = "accept"

\* the title with a hard and a soft keyword has been judged, and rejected
C3_Witness ==
    /\ title = <<"wang", "hong", "da", "ka_card", "yue", "hui_meet", "zhuan", "chang">>
    /\ verdict = "reject"

-----------------------------------------------------------------------------
(* Properties of the item builder, under SpecItem *)

TextKeys == {"name", "area", "date", "timeHint", "openHoursHint", "notes", "link"}

RatingKeys == {"transitEase", "transferComplexity", "timeMin", "crowdRisk", "checkin",
               "mosquito", "toiletSupply", "lighting"}

\* v is a value of the type the data model states for field k
HasFieldType(k, v) ==
    CASE k \in TextKeys -> v \in Seq(STRING)
      [] k = "tags" -> v \in Seq(STRING)
      [] k = "type" -> v = "event"
      [] k \in {"cost", "intensity"} -> v \in {"low", "mid", "high"}
      [] k = "reservation" -> v \in {"yes", "no", "maybe"}
      [] k \in RatingKeys -> v \in Int
      [] k = "weatherFit" -> v \in [{"rain", "sun", "cold"} -> BOOLEAN]
      [] k = "seasonFit" -> v \in [{"spring", "summer", "autumn", "winter"} -> BOOLEAN]
      [] k = "source" -> v \in STRING

\* C4: the built item has exactly the 23 schema keys, whatever keys the
\* mapping has; each holds the supplied value if one was supplied and the
\* fixed default otherwise, a value of the field's type; no unknown key is
\* in the item.
C4_BuilderComplete ==
    DOMAIN built # {} =>
        /\ DOMAIN built = SchemaKeys
        /\ Cardinality(DOMAIN built) = 23
        /\ \A k \in UnknownKeys : k \notin DOMAIN built
        /\ \A k \in SchemaKeys :
              /\ built[k] = IF k \in DOMAIN kw THEN kw[k] ELSE make_item_base(<<>>)[k]
              /\ HasFieldType(k, built[k])

\* an item was built from a mapping with a schema key and an unknown key
C4_Witness ==
    /\ DOMAIN built # {}
    /\ "price" \in DOMAIN kw
    /\ "name" \in DOMAIN kw
    /\ built.name = kw.name

-----------------------------------------------------------------------------
(* Properties of the segmentation engine, under SpecPdf *)

\* C8: the bulletin of the two lines block A and block B gives two items, in
\* that order, with the dates and times of the blocks and with the areas
\* "wen hua gong" and "da ju yuan", the venue labels alone.
C8_SyntheticBulletin ==
    (ppc = "done" /\ pdf_text = SyntheticBulletin) =>
        /\ Len(events) = 2
        /\ events[1].date = <<"2", "0", "2", "5", "nian", "3", "yue_month", "5", "ri">>
        /\ events[2].date = <<"2", "0", "2", "5", "nian", "4", "yue_month", "1", "ri">>
        /\ events[1].timeHint = <<"1", "0", ":", "0", "0", "-", "1", "2", ":", "0", "0">>
        /\ events[2].timeHint = <<"1", "9", ":", "3", "0", "-", "2", "1", ":", "0", "0">>
        /\ events[1].area = <<"wen", "hua", "gong">>
        /\ events[2].area = <<"da_big", "ju", "yuan">>

\* C9: every item the engine emits has a non-empty name.
C9_NamesNonEmpty == \A i \in 1..Len(events) : events[i].name # <<>>

-----------------------------------------------------------------------------
(* Properties of the segmentation loop, under SpecLoop *)

\* date_pat.search(ln) finds a date token
IsDateLine(ln) == FirstDate(ln)[1] # 0

\* the place of a line among the cleaned lines, 0 if it is not one of them
LineAt(ln) ==
    IF \E i \in 1..Len(lines) : lines[i] = ln
    THEN CHOOSE i \in 1..Len(lines) : lines[i] = ln
    ELSE 0

\* the lines the loop has gone through
Consumed == IF ppc = "done" THEN Len(lines) ELSE IF ppc = "loop" THEN cursor - 1 ELSE 0

\* r is the run of cleaned lines that starts where its first line stands
IsRun(r) ==
    /\ r # <<>>
    /\ LineAt(r[1]) # 0
    /\ LineAt(r[1]) + Len(r) - 1 <= Consumed
    /\ r = SubSeq(lines, LineAt(r[1]), LineAt(r[1]) + Len(r) - 1)

\* where a run ends
RunEnd(r) == LineAt(r[1]) + Len(r) - 1

\* the buffer is an open block that no call of flush_buf has been handed yet
BufOpen == ppc = "loop" /\ buf # <<>>

\* the blocks handed to flush_buf are disjoint runs of lines, in input order
BlocksAreRuns ==
    /\ \A b \in 1..Len(blocks) : IsRun(blocks[b])
    /\ \A b \in 1..Len(blocks) - 1 : RunEnd(blocks[b]) < LineAt(blocks[b + 1][1])
    /\ BufOpen =>
          /\ IsRun(buf)
          /\ RunEnd(buf) = Consumed
          /\ blocks # <<>> => RunEnd(blocks[Len(blocks)]) < LineAt(buf[1])

\* a date line the loop went through is the first line of exactly one block,
\* flushed or still open, and is no later line of any block
DateLinesAnchor ==
    /\ \A i \in 1..Consumed :
          IsDateLine(lines[i]) =>
              Cardinality({b \in 1..Len(blocks) : LineAt(blocks[b][1]) = i})
                + (IF BufOpen /\ LineAt(buf[1]) = i THEN 1 ELSE 0) = 1
    /\ \A b \in 1..Len(blocks) :
          \A k \in 2..Len(blocks[b]) : ~IsDateLine(blocks[b][k])
    /\ \A k \in 2..Len(buf) : ~IsDateLine(buf[k])

\* no block has more than 6 lines, and between two lines the buffer has fewer
BlocksAtMostSix ==
    /\ \A b \in 1..Len(blocks) : Len(blocks[b]) <= 6
    /\ Len(buf) < 6

\* at the end of the input the open block has been handed to flush_buf, and
\* every date line is in a flushed block
LastBlockFlushed ==
    ppc = "done" =>
        /\ buf # <<>> => (blocks # <<>> /\ blocks[Len(blocks)] = buf)
        /\ buf # <<>> => RunEnd(buf) = Len(lines)
        /\ \A i \in 1..Len(lines) :
              IsDateLine(lines[i]) => \E b \in 1..Len(blocks) : blocks[b][1] = lines[i]

\* C11: for every sequence of cleaned lines, the blocks the loop hands to
\* flush_buf are disjoint contiguous runs of the lines in input order; every
\* line with a date token is the first line of exactly one block and is never
\* dropped nor appended to an open block; no block has more than 6 lines, the
\* buffer being flushed and emptied when it reaches 6; and the block open at
\* the end of the input is flushed.
C11_LoopBlocks ==
    /\ BlocksAreRuns
    /\ DateLinesAnchor
    /\ BlocksAtMostSix
    /\ LastBlockFlushed

\* a finished run in which a block was flushed at 6 lines and the date line
\* after it opened the block that the end of the input flushed
C11_Witness ==
    /\ ppc = "done"
    /\ Len(blocks) >= 2
    /\ Len(blocks[Len(blocks) - 1]) = 6
    /\ buf # <<>>
    /\ IsDateLine(buf[1])
    /\ blocks[Len(blocks)] = buf

====
